---- MODULE Spec2Model ----
(***************************************************************************)
(* ARPianoVisualizer: the fiducial-to-pose pipeline of                     *)
(* src/src/video/aruco_camera.rs (system track_aruco_targets) together     *)
(* with the frame capture system of src/src/video.rs.  Spec runs these two *)
(* systems one whole run at a time; SpecSched adds the drawing system of   *)
(* src/src/background.rs and lets the executor start and finish the three  *)
(* systems in separate steps.                                              *)
(*                                                                         *)
(* Numbers.  The code computes in f64/f32.  The model computes in the      *)
(* integers, extended by one value NaN that stands for a non-finite float  *)
(* and absorbs every arithmetic operation, as IEEE NaN does.  Rotation     *)
(* vectors are measured in quarter turns (1 = pi/2 rad) and are axis       *)
(* aligned, so that the Rodrigues matrix has entries in {-1, 0, 1}.  The   *)
(* f64 nearest to a multiple of pi/2 is not that multiple, so where cos or *)
(* sin is 0 the code holds a residue of the order of 1e-16; it is carried  *)
(* apart from the integer components, as a multiple of d = 6.1e-17, to the *)
(* one place that divides by it: look_at with the camera straight above    *)
(* or below its target.                                                    *)
(* Lengths of the fiducial table are in quarter millimetres (82.5 mm =     *)
(* 330), so that FIDUCIAL_SIZE / 2.0 is an integer.                        *)
(*                                                                         *)
(* A unit quaternion is represented by the rotation it denotes, written as *)
(* the three columns (right, up, back) of its matrix, each column reduced  *)
(* to the primitive integer vector of its direction.                       *)
(***************************************************************************)
EXTENDS Integers, Sequences, FiniteSets, TLC

(* ----------------------------- bounds ---------------------------------- *)

\* Largest number of markers the detector reports in one frame.
MaxDetections == 2

(* ------------------------- float arithmetic ---------------------------- *)

\* A non-finite f64/f32 (NaN): a value outside the range of every finite
\* number of the model.
NaN == 0 - 1000000

FNeg(a) == IF a = NaN THEN NaN ELSE 0 - a

FAdd(a, b) == IF a = NaN \/ b = NaN THEN NaN ELSE a + b

FMul(a, b) == IF a = NaN \/ b = NaN THEN NaN ELSE a * b

FSub(a, b) == FAdd(a, FNeg(b))

HasNaN(v) == \E i \in DOMAIN v : v[i] = NaN

Abs(a) == IF a < 0 THEN 0 - a ELSE a

RECURSIVE Gcd(_, _)
Gcd(a, b) == IF b = 0 THEN Abs(a) ELSE Gcd(b, a % Abs(b))

(* ------------------------------ glam ----------------------------------- *)

\* Vec3 is <<x, y, z>>.
Vec3ZERO == <<0, 0, 0>>

Vec3Y == <<0, 1, 0>>

Vec3NEG_Z == <<0, 0, 0 - 1>>

Vec3Neg(v) == <<FNeg(v[1]), FNeg(v[2]), FNeg(v[3])>>

Vec3Sub(a, b) == <<FSub(a[1], b[1]), FSub(a[2], b[2]), FSub(a[3], b[3])>>

Cross(a, b) ==
    << FSub(FMul(a[2], b[3]), FMul(a[3], b[2])),
       FSub(FMul(a[3], b[1]), FMul(a[1], b[3])),
       FSub(FMul(a[1], b[2]), FMul(a[2], b[1])) >>

\* The direction of v: v divided by the gcd of its components (the model's
\* normalisation; v / |v| in the code).
Normalize(v) ==
    IF HasNaN(v) THEN <<NaN, NaN, NaN>>
    ELSE IF v = Vec3ZERO THEN v
    ELSE LET g == Gcd(Gcd(v[1], v[2]), v[3])
         IN  <<v[1] \div g, v[2] \div g, v[3] \div g>>

\* Dir3::new / Vec3::try_normalize succeed on a finite non-zero vector.
CanNormalize(v) == ~HasNaN(v) /\ v # Vec3ZERO

\* Mat3 is <<x_axis, y_axis, z_axis>>, its three columns.
\* Mat3::from_cols_slice: the first three values are the first COLUMN.
Mat3FromColsSlice(s) ==
    << <<s[1], s[2], s[3]>>, <<s[4], s[5], s[6]>>, <<s[7], s[8], s[9]>> >>

Mat3FromCols(x, y, z) == <<x, y, z>>

\* Mat3::transpose
Mat3Transpose(m) ==
    << <<m[1][1], m[2][1], m[3][1]>>,
       <<m[1][2], m[2][2], m[3][2]>>,
       <<m[1][3], m[2][3], m[3][3]>> >>

\* Neg for Mat3
Mat3Neg(m) == <<Vec3Neg(m[1]), Vec3Neg(m[2]), Vec3Neg(m[3])>>

\* Mul<Vec3> for Mat3: x_axis * v.x + y_axis * v.y + z_axis * v.z
Mat3MulVec3(m, v) ==
    [r \in 1..3 |->
        FAdd(FAdd(FMul(m[1][r], v[1]), FMul(m[2][r], v[2])), FMul(m[3][r], v[3]))]

\* Quat::from_mat3: the rotation with the given basis columns.
QuatFromMat3(m) == <<Normalize(m[1]), Normalize(m[2]), Normalize(m[3])>>

\* Vec3::any_orthonormal_vector, on the unit vectors of the axes (where the
\* divisions by sign + z are exact).
AnyOrthonormalVector(v) ==
    LET sign == IF v[3] < 0 THEN 0 - 1 ELSE 1
        den  == sign + v[3]
    IN  << 0 - ((v[1] * v[2]) \div den), sign - ((v[2] * v[2]) \div den), 0 - v[2] >>

\* The part of a vector that lies below the rounding of its components: a
\* component that is not zero absorbs its residue, a zero component keeps it.
Below(v, residue) ==
    [i \in 1..3 |-> IF v[i] = 0 THEN residue[i] ELSE 0]

\* Transform::look_to(direction, up), called by look_at and looking_at:
\* the rotation whose back axis is -direction.  The direction is given with
\* its residue: where up x back vanishes in the components themselves it is
\* the residue that try_normalize sees, and only when that vanishes too does
\* the code fall back on any_orthonormal_vector.
LookTo(direction, residue, up) ==
    LET lead  == IF direction = Vec3ZERO THEN residue ELSE direction
        rest  == IF direction = Vec3ZERO THEN Vec3ZERO ELSE Below(direction, residue)
        fwd   == IF CanNormalize(lead) THEN Normalize(lead) ELSE Vec3NEG_Z
        back  == Vec3Neg(fwd)
        u     == IF CanNormalize(up) THEN Normalize(up) ELSE Vec3Y
        c     == Cross(u, back)
        cr    == IF CanNormalize(lead) THEN Cross(u, Vec3Neg(rest)) ELSE Vec3ZERO
        right == IF CanNormalize(c) THEN Normalize(c)
                 ELSE IF c = Vec3ZERO /\ CanNormalize(cr) THEN Normalize(cr)
                 ELSE AnyOrthonormalVector(u)
        up2   == Cross(back, right)
    IN  QuatFromMat3(Mat3FromCols(right, up2, back))

\* Transform::look_at(target, up), from a translation given with its residue.
LookAt(translation, residue, target, up) ==
    LookTo(Vec3Sub(target, translation), Vec3Neg(residue), up)

(* ----------------------------- OpenCV ---------------------------------- *)

\* cos and sin of k quarter turns.
CosQ(k) == IF k % 4 = 0 THEN 1 ELSE IF k % 4 = 2 THEN 0 - 1 ELSE 0

SinQ(k) == IF k % 4 = 1 THEN 1 ELSE IF k % 4 = 3 THEN 0 - 1 ELSE 0

\* What f64 cos and sin return where the exact value is 0: the f64 nearest
\* to k * pi/2 lies k * d below it (d = 6.1e-17, half the rounding error of
\* pi), so cos gives d, -3d, ... at k = 1, 3, ... and sin gives 2d, -4d, ...
\* at k = 2, 4, ...; sin 0 is exactly 0.  In units of d.
CosQResidue(k) == IF k % 4 = 1 THEN k ELSE IF k % 4 = 3 THEN 0 - k ELSE 0

SinQResidue(k) == IF k % 4 = 2 THEN k ELSE IF k % 4 = 0 THEN 0 - k ELSE 0

\* calib3d::rodrigues_def on a rotation vector: theta = |r|, a = r / theta,
\* R = cos(theta) I + (1 - cos(theta)) a a^T + sin(theta) [a]x; the identity
\* for theta = 0; NaN everywhere when theta is not finite.  The result is the
\* data of the 3x3 Mat, which OpenCV stores row by row.
Rodrigues(r) ==
    IF HasNaN(r) THEN [i \in 1..9 |-> NaN]
    ELSE LET theta == Abs(r[1]) + Abs(r[2]) + Abs(r[3])
             a     == Normalize(r)
             c     == CosQ(theta)
             s     == SinQ(theta)
             rx    == << <<0, 0 - a[3], a[2]>>, <<a[3], 0, 0 - a[1]>>, <<0 - a[2], a[1], 0>> >>
             E(i, j) == (IF i = j THEN c ELSE 0) + (1 - c) * a[i] * a[j] + s * rx[i][j]
         IN  IF theta = 0 THEN <<1, 0, 0, 0, 1, 0, 0, 0, 1>>
             ELSE << E(1, 1), E(1, 2), E(1, 3),
                     E(2, 1), E(2, 2), E(2, 3),
                     E(3, 1), E(3, 2), E(3, 3) >>

\* The residues of the Rodrigues matrix, row by row, in units of d: what
\* the entries that are exactly 0 in Rodrigues(r) hold in the f64 Mat.
\* Entries that are 1 or -1 absorb their residue.
RodriguesResidue(r) ==
    IF HasNaN(r) THEN [i \in 1..9 |-> 0]
    ELSE LET theta == Abs(r[1]) + Abs(r[2]) + Abs(r[3])
             a     == Normalize(r)
             c     == CosQResidue(theta)
             s     == SinQResidue(theta)
             rx    == << <<0, 0 - a[3], a[2]>>, <<a[3], 0, 0 - a[1]>>, <<0 - a[2], a[1], 0>> >>
             E(i, j) == (IF i = j THEN c ELSE 0) - c * a[i] * a[j] + s * rx[i][j]
             main  == Rodrigues(r)
         IN  [n \in 1..9 |->
                 IF theta = 0 \/ main[n] # 0 THEN 0
                 ELSE E(((n - 1) \div 3) + 1, ((n - 1) % 3) + 1)]

(* ------------------------- fiducial registry --------------------------- *)

FIDUCIAL_SIZE == 330

FiducialPosition(id, x_offset) == [id |-> id, x_offset |-> x_offset]

FIDUCIAL_POSITIONS ==
    << FiducialPosition(0, 0 - (105 * 4) - (280 * 4) - FIDUCIAL_SIZE \div 2),
       FiducialPosition(1, 0 - (105 * 4) - FIDUCIAL_SIZE \div 2),
       FiducialPosition(2, (105 * 4) + FIDUCIAL_SIZE \div 2),
       FiducialPosition(3, (105 * 4) + (280 * 4) + FIDUCIAL_SIZE \div 2) >>

\* Faulty variant: the last two corners are listed in the other order.
get_cornersSwapped(self) ==
    LET half_size == FIDUCIAL_SIZE \div 2
    IN  << <<self.x_offset + half_size, 0, half_size>>,
           <<self.x_offset - half_size, 0, half_size>>,
           <<self.x_offset + half_size, 0, 0 - half_size>>,
           <<self.x_offset - half_size, 0, 0 - half_size>> >>

\* FiducialPosition::get_corners
get_corners(self) ==
    LET half_size == FIDUCIAL_SIZE \div 2
    IN  << <<self.x_offset + half_size, 0, half_size>>,
           <<self.x_offset - half_size, 0, half_size>>,
           <<self.x_offset - half_size, 0, 0 - half_size>>,
           <<self.x_offset + half_size, 0, 0 - half_size>> >>

\* FIDUCIAL_POSITIONS.iter().find(|fiducial| fiducial.id == id): the index of
\* the first entry with that id, 0 for None.
RECURSIVE FindFrom(_, _)
FindFrom(id, i) ==
    IF i > Len(FIDUCIAL_POSITIONS) THEN 0
    ELSE IF FIDUCIAL_POSITIONS[i].id = id THEN i
    ELSE FindFrom(id, i + 1)

find(id) == FindFrom(id, 1)

\* Iterator::flatten on a sequence of sequences.
RECURSIVE Flatten(_)
Flatten(ss) == IF ss = <<>> THEN <<>> ELSE Head(ss) \o Flatten(Tail(ss))

(* ------------------------------- inputs -------------------------------- *)

\* Identifiers the detector reports: two of the table, one outside it
\* (the dictionary DICT_APRILTAG_25h9 has more markers than the table).
DetectableIds == {1, 2, 7}

\* The sequences of at most n distinct elements of S.
RECURSIVE SeqsUpTo(_, _)
SeqsUpTo(S, n) ==
    IF n = 0 THEN {<<>>}
    ELSE LET shorter == SeqsUpTo(S, n - 1)
         IN  shorter \cup
             UNION {{Append(q, x) : x \in {y \in S : \A i \in 1..Len(q) : q[i] # y}} :
                    q \in shorter}

\* A frame (Mat): empty, or an image, told apart by the markers visible in it
\* (each marker at most once), in the order the detector reports them.
EmptyMat == [empty |-> TRUE, markers |-> <<>>]

Image(markers) == [empty |-> FALSE, markers |-> markers]

Frames == {EmptyMat} \cup {Image(b) : b \in SeqsUpTo(DetectableIds, MaxDetections)}

\* A pixel position: corner c of the i-th marker outline found in the frame.
Point2f(i, c) == <<i, c>>

\* Vectors the pose solver writes: rotation vectors in quarter turns (a
\* quarter turn about z, a half turn about x, a non-finite one) and
\* translations.
RVecs == {<<0, 0, 1>>, <<2, 0, 0>>, <<NaN, 0, 0>>}

TVecs == {<<1, 0, 0>>, <<0, 2, 3>>}

\* What a call of solve_pnp_ransac_def does: Err, or Ok(found) having written
\* (or not) the two output vectors.
SolveResult(ret, wrote, rvec, tvec) ==
    [ret |-> ret, wrote |-> wrote, rvec |-> rvec, tvec |-> tvec]

NotSolved == SolveResult("NotCalled", FALSE, Vec3ZERO, Vec3ZERO)

SolveResults ==
    {SolveResult(ret, FALSE, Vec3ZERO, Vec3ZERO) : ret \in {"Err", "Ok_false"}}
    \cup {SolveResult(ret, TRUE, r, t) : ret \in {"Ok_true", "Ok_false"}, r \in RVecs, t \in TVecs}

\* Which of cvt_color and detect_markers fails with an OpenCV error, if any.
Faults == {"none", "cvt_color", "detect_markers"}

\* What the external calls of one tick do: a fault before the solver is
\* reached, or the solver's result.
TickInputs ==
    {[fault |-> f, res |-> NotSolved] : f \in Faults \ {"none"}}
    \cup {[fault |-> "none", res |-> r] : r \in SolveResults}

(* -------------------------------- state -------------------------------- *)

VARIABLES
    webcam_frame,   \* resource WebcamFrame: the latest frame read
    tracking_data,  \* resource ArucoTrackingData
    transform,      \* Transform of the camera entity: translation, rotation
    panicked,       \* an expect() failed: the process has terminated
    tick,           \* record of the last run of track_aruco_targets (history)
    after_abort,    \* the run before the last returned early (history)
    converted_webcam_frame, \* resource ConvertedWebcamFrame
    background_image,       \* resource BackgroundImage
    running         \* the systems the executor has started and not finished

vars == <<webcam_frame, tracking_data, transform, panicked, tick, after_abort,
          converted_webcam_frame, background_image, running>>

\* What the tracking system and the capture system do not touch.
background_vars == <<converted_webcam_frame, background_image>>

DEBUG_POINTS == FALSE

\* ArucoTrackingData::default
ArucoTrackingDataDefault ==
    [ greyscale_image    |-> EmptyMat,
      ids                |-> <<>>,
      corners            |-> <<>>,
      latest_rotation    |-> <<0, 0, 0>>,
      latest_translation |-> <<0, 0, 0>> ]

\* setup: Transform::from_xyz(0.0, 500.0, 500.0).looking_at(Vec3::ZERO, Vec3::Y)
CameraStart ==
    LET t == <<0, 500, 500>>
    IN  [translation |-> t, rotation |-> LookAt(t, Vec3ZERO, Vec3ZERO, Vec3Y)]

(* ------------------------ track_aruco_targets -------------------------- *)

\* Faulty variant: the empty-frame check is missing.
FrameEmptyUnchecked(frame) == FALSE

\* frame.empty()
FrameEmpty(frame) == frame.empty

\* detect_markers: one identifier and one outline of 4 corners per marker.
detect_markers(greyscale) ==
    [ ids     |-> greyscale.markers,
      corners |-> [i \in 1..Len(greyscale.markers) |-> [c \in 1..4 |-> Point2f(i, c)]] ]

\* Faulty variant: the zero-detections check is missing.
NoMarkersUnchecked(ids) == FALSE

\* Faulty variant: the zero-detections check is the wrong way round.
NoMarkersInverted(ids) == Len(ids) # 0

\* ids.len() == 0
NoMarkers(ids) == Len(ids) = 0

\* corners.iter().flatten().collect()
flat_corners(corners) == Flatten(corners)

\* Faulty variant: the corners of the markers are collected last marker first.
RECURSIVE FilterMapCornersReversed(_)
FilterMapCornersReversed(ids) ==
    IF ids = <<>> THEN <<>>
    ELSE FilterMapCornersReversed(Tail(ids))
         \o (IF find(Head(ids)) = 0 THEN <<>>
             ELSE <<get_corners(FIDUCIAL_POSITIONS[find(Head(ids))])>>)

\* ids.iter().filter_map(find ... get_corners).flatten().collect()
RECURSIVE FilterMapCorners(_)
FilterMapCorners(ids) ==
    IF ids = <<>> THEN <<>>
    ELSE (IF find(Head(ids)) = 0 THEN <<>>
          ELSE <<get_corners(FIDUCIAL_POSITIONS[find(Head(ids))])>>)
         \o FilterMapCorners(Tail(ids))

fiducial_corners(ids) == Flatten(FilterMapCorners(ids))

\* Faulty variant: the length check is missing.
CorrespondenceMismatchUnchecked(fc, flat) == FALSE

\* Faulty variant: only a surplus of 3D points is refused.
CorrespondenceMismatchLenient(fc, flat) == Len(fc) > Len(flat)

\* fiducial_corners.len() != flat_corners.len()
CorrespondenceMismatch(fc, flat) == Len(fc) # Len(flat)

\* solve_pnp_ransac_def(...) returned Err
SolvePanics(res) == res.ret = "Err"

\* Faulty variant: the solver's boolean is ignored.
SolveFoundIgnored(res) == TRUE

\* Faulty variant: the solver's boolean is read the wrong way round.
SolveFoundNegated(res) == res.ret = "Ok_false"

\* if !solve_pnp_ransac_def(...) { return; }
SolveFound(res) == res.ret = "Ok_true"

\* Faulty variant: the solver's output is not stored, the conversion reads
\* what an earlier tick left in the buffers.
SolverWritesNothing(data, res) == data

\* The buffers after the solver has run on them.
SolverWrites(data, res) ==
    IF res.wrote
    THEN [data EXCEPT !.latest_rotation = res.rvec, !.latest_translation = res.tvec]
    ELSE data

\* Convert OpenCV's coordinate system to Bevy's.
CoordinateFlip(v) == <<v[1], FNeg(v[2]), v[3]>>

\* Mat3::from_cols_slice(rotation_matrix.data_typed::<f64>()...)
ReadRotationMatrix(rotation_data) == Mat3FromColsSlice(rotation_data)

\* Faulty variant: the rotation is not transposed.
InvertPoseNoTranspose(rotation_matrix, translation) ==
    [ rotation_matrix_inverse |-> rotation_matrix,
      rotation_inverse        |-> QuatFromMat3(rotation_matrix),
      translation_inverse     |-> Mat3MulVec3(Mat3Neg(rotation_matrix), translation) ]

\* rotation_matrix.transpose(); Quat::from_mat3; -rotation_matrix_inverse * translation
InvertPose(rotation_matrix, translation) ==
    LET rotation_matrix_inverse == Mat3Transpose(rotation_matrix)
    IN  [ rotation_matrix_inverse |-> rotation_matrix_inverse,
          rotation_inverse        |-> QuatFromMat3(rotation_matrix_inverse),
          translation_inverse     |->
              Mat3MulVec3(Mat3Neg(rotation_matrix_inverse), translation) ]

\* The residue of -rotation_matrix_inverse * translation: the same product
\* taken with the residues of the matrix, kept in the components whose
\* value is 0.
InvertPoseResidue(rotation_residue, translation, translation_inverse) ==
    LET residue_inverse == Mat3Transpose(rotation_residue)
        negated         == Mat3Neg(residue_inverse)
        product         == Mat3MulVec3(negated, translation)
    IN  IF HasNaN(translation) THEN Vec3ZERO
        ELSE Below(translation_inverse, product)

\* The values computed by one pass of the loop body before it publishes.
\* translation_inverse is given by its components and, apart, their residue.
Convert(latest_rotation, latest_translation) ==
    LET translation     == latest_translation
        rotation_matrix == ReadRotationMatrix(Rodrigues(latest_rotation))
        inv             == InvertPose(rotation_matrix, translation)
        rotation_data_residue == RodriguesResidue(latest_rotation)
        rotation_residue      == ReadRotationMatrix(rotation_data_residue)
        residue               ==
            InvertPoseResidue(rotation_residue, translation, inv.translation_inverse)
    IN  [ translation             |-> translation,
          rotation_matrix         |-> rotation_matrix,
          rotation_matrix_inverse |-> inv.rotation_matrix_inverse,
          rotation_inverse        |-> inv.rotation_inverse,
          translation_inverse     |-> CoordinateFlip(inv.translation_inverse),
          translation_residue     |-> CoordinateFlip(residue) ]

\* Faulty variant: the pose is computed and not written to the camera.
PublishNothing(camera, translation_inverse, translation_residue, rotation_inverse) ==
    camera

\* if !DEBUG_POINTS { translation, rotation, look_at }.  The Transform of
\* the model keeps the components of the translation; look_at, which runs
\* on the translation just assigned, sees its residue as well.
Publish(camera, translation_inverse, translation_residue, rotation_inverse) ==
    IF ~DEBUG_POINTS
    THEN LET t1 == [camera EXCEPT !.translation = translation_inverse]
             t2 == [t1 EXCEPT !.rotation = rotation_inverse]
         IN  [t2 EXCEPT !.rotation =
                  LookAt(t2.translation, translation_residue, Vec3ZERO, Vec3Y)]
    ELSE camera

\* Result::expect: the system panics when the call returned Err.
ExpectPanics(failed) == failed # "none"

\* fiducial_detector.0.lock().expect(...).detect_markers(...): the detector
\* is reached through the guard of its mutex.
DetectorAccess == "locked"

\* No conversion was computed in this run.
NotConverted ==
    [ translation             |-> Vec3ZERO,
      rotation_matrix         |-> <<Vec3ZERO, Vec3ZERO, Vec3ZERO>>,
      rotation_matrix_inverse |-> <<Vec3ZERO, Vec3ZERO, Vec3ZERO>>,
      rotation_inverse        |-> <<Vec3ZERO, Vec3ZERO, Vec3ZERO>>,
      translation_inverse     |-> Vec3ZERO,
      translation_residue     |-> Vec3ZERO ]

\* One run of the system on the given frame: the new tracking data, the new
\* camera transform, whether the run panicked, and the record of the run
\* (the stages entered, the call that returned Err, how the run ended, the
\* values it computed, the camera transform it started from).
Track(frame, data, camera, fault, res) ==
    LET Result(stages, failed, outcome, d, cam, flat, fc, solve, conv, writes) ==
            [ data      |-> d,
              transform |-> cam,
              panicked  |-> ExpectPanics(failed),
              tick      |-> [ frame            |-> frame,
                              stages           |-> stages,
                              failed           |-> failed,
                              outcome          |-> outcome,
                              flat_corners     |-> flat,
                              fiducial_corners |-> fc,
                              solve            |-> solve,
                              conv             |-> conv,
                              writes           |-> writes,
                              before           |-> camera,
                              detector         |->
                                  IF Len(stages) >= 2 /\ failed # "cvt_color"
                                  THEN DetectorAccess ELSE "unused" ] ]
        grey   == [data EXCEPT !.greyscale_image = frame]
        det    == detect_markers(frame)
        found  == [grey EXCEPT !.ids = det.ids, !.corners = det.corners]
        flat   == flat_corners(found.corners)
        fc     == fiducial_corners(found.ids)
        solved == SolverWrites(found, res)
        conv   == Convert(solved.latest_rotation, solved.latest_translation)
    IN  IF FrameEmpty(frame)
        THEN Result(<<"AcquireFrame">>, "none", "AcquisitionEmpty",
                    data, camera, <<>>, <<>>, NotSolved, NotConverted, 0)
        ELSE IF fault = "cvt_color"
        THEN Result(<<"AcquireFrame", "Detect">>, "cvt_color", "HardFailure",
                    data, camera, <<>>, <<>>, NotSolved, NotConverted, 0)
        ELSE IF fault = "detect_markers"
        THEN Result(<<"AcquireFrame", "Detect">>, "detect_markers", "HardFailure",
                    grey, camera, <<>>, <<>>, NotSolved, NotConverted, 0)
        ELSE IF NoMarkers(found.ids)
        THEN Result(<<"AcquireFrame", "Detect">>, "none", "NoTargets",
                    found, camera, <<>>, <<>>, NotSolved, NotConverted, 0)
        ELSE IF CorrespondenceMismatch(fc, flat)
        THEN Result(<<"AcquireFrame", "Detect", "BuildCorrespondences">>,
                    "none", "CorrespondenceMismatch",
                    found, camera, flat, fc, NotSolved, NotConverted, 0)
        ELSE IF SolvePanics(res)
        THEN Result(<<"AcquireFrame", "Detect", "BuildCorrespondences", "Solve">>,
                    "solve_pnp_ransac_def", "HardFailure",
                    solved, camera, flat, fc, res, NotConverted, 0)
        ELSE IF ~SolveFound(res)
        THEN Result(<<"AcquireFrame", "Detect", "BuildCorrespondences", "Solve">>,
                    "none", "SolveFailed",
                    solved, camera, flat, fc, res, NotConverted, 0)
        ELSE Result(<<"AcquireFrame", "Detect", "BuildCorrespondences", "Solve",
                      "Convert", "Publish">>,
                    "none", "Published",
                    solved,
                    Publish(camera, conv.translation_inverse, conv.translation_residue,
                            conv.rotation_inverse),
                    flat, fc, res, conv,
                    IF DEBUG_POINTS THEN 0 ELSE 1)

\* The outcomes of a run that took one of the four early returns.
EarlyReturns ==
    {"AcquisitionEmpty", "NoTargets", "CorrespondenceMismatch", "SolveFailed"}

\* The resources and the camera after a run, as the run leaves them.
TrackSets(r) ==
    /\ tracking_data' = r.data
    /\ transform' = r.transform
    /\ panicked' = r.panicked
    /\ tick' = r.tick

\* One run of the system on the inputs the given set offers.
TrackRun(inputs) ==
    /\ \E in \in inputs :
          TrackSets(Track(webcam_frame, tracking_data, transform, in.fault, in.res))
    /\ after_abort' = (tick.outcome \in EarlyReturns)
    /\ UNCHANGED <<webcam_frame, background_vars>>

track_aruco_targets ==
    /\ ~panicked
    /\ running = {}
    /\ TrackRun(TickInputs)
    /\ UNCHANGED running

(* ---------------------- capture_background_image ------------------------ *)

\* cam.read(frame).expect(...): a new frame (possibly empty), or a panic.
CaptureRun(frames) ==
    /\ \E ok \in BOOLEAN, f \in frames :
          /\ webcam_frame' = (IF ok THEN f ELSE webcam_frame)
          /\ panicked' = ~ok
    /\ UNCHANGED <<tracking_data, transform, tick, after_abort, background_vars>>

capture_background_image ==
    /\ ~panicked
    /\ running = {}
    /\ CaptureRun(Frames)
    /\ UNCHANGED running

(* ----------------------- handle_background_image ----------------------- *)

\* Image::default(), and the Image::new built from the converted frame.
ImageDefault == [default |-> TRUE, pixels |-> EmptyMat]

ImageNew(converted) == [default |-> FALSE, pixels |-> converted]

\* The calls of handle_background_image that can return Err.
DrawFaults == {"none", "cvt_color", "data_bytes"}

\* cvt_color fails on an empty source, and may fail otherwise; data_bytes may
\* fail; both are logged and the system returns.
HandleRun ==
    /\ \E fault \in DrawFaults :
          IF FrameEmpty(webcam_frame) \/ fault = "cvt_color"
          THEN UNCHANGED <<converted_webcam_frame, background_image>>
          ELSE IF fault = "data_bytes"
          THEN /\ converted_webcam_frame' = webcam_frame
               /\ UNCHANGED background_image
          ELSE /\ converted_webcam_frame' = webcam_frame
               /\ background_image' = ImageNew(webcam_frame)
    /\ UNCHANGED <<webcam_frame, tracking_data, transform, panicked, tick, after_abort>>

(* --------------------------- specification ----------------------------- *)

Init ==
    /\ webcam_frame = EmptyMat
    /\ tracking_data = ArucoTrackingDataDefault
    /\ transform = CameraStart
    /\ panicked = FALSE
    /\ tick = [ frame            |-> EmptyMat,
                stages           |-> <<>>,
                failed           |-> "none",
                outcome          |-> "None",
                flat_corners     |-> <<>>,
                fiducial_corners |-> <<>>,
                solve            |-> NotSolved,
                conv             |-> NotConverted,
                writes           |-> 0,
                before           |-> CameraStart,
                detector         |-> "unused" ]
    /\ after_abort = FALSE
    /\ converted_webcam_frame = EmptyMat
    /\ background_image = ImageDefault
    /\ running = {}

Next == capture_background_image \/ track_aruco_targets

Spec == Init /\ [][Next]_vars

(* ------------------------- the Update schedule ------------------------- *)

\* The systems the three plugins add to Update.
Systems ==
    {"capture_background_image", "track_aruco_targets", "handle_background_image"}

\* Faulty variant: the systems that only read the frame declare Res, not ResMut.
SystemParamsFrameShared(s) ==
    IF s = "capture_background_image"
    THEN {[resource |-> "WebcamFrame", mutable |-> TRUE],
          [resource |-> "VideoCapture", mutable |-> FALSE]}
    ELSE IF s = "track_aruco_targets"
    THEN {[resource |-> "FiducialDetector", mutable |-> FALSE],
          [resource |-> "WebcamFrame", mutable |-> FALSE],
          [resource |-> "ArucoTrackingData", mutable |-> TRUE],
          [resource |-> "CameraIntrinsics", mutable |-> FALSE],
          [resource |-> "Transform", mutable |-> TRUE]}
    ELSE {[resource |-> "BackgroundImage", mutable |-> TRUE],
          [resource |-> "WebcamFrame", mutable |-> FALSE],
          [resource |-> "ConvertedWebcamFrame", mutable |-> TRUE]}

\* The resources each system declares in its parameters: Res is shared
\* access, ResMut and &mut in a Query are exclusive access.
SystemParams(s) ==
    IF s = "capture_background_image"
    THEN {[resource |-> "WebcamFrame", mutable |-> TRUE],
          [resource |-> "VideoCapture", mutable |-> FALSE]}
    ELSE IF s = "track_aruco_targets"
    THEN {[resource |-> "FiducialDetector", mutable |-> FALSE],
          [resource |-> "WebcamFrame", mutable |-> TRUE],
          [resource |-> "ArucoTrackingData", mutable |-> TRUE],
          [resource |-> "CameraIntrinsics", mutable |-> FALSE],
          [resource |-> "Transform", mutable |-> TRUE]}
    ELSE {[resource |-> "BackgroundImage", mutable |-> TRUE],
          [resource |-> "WebcamFrame", mutable |-> TRUE],
          [resource |-> "ConvertedWebcamFrame", mutable |-> TRUE]}

\* Two systems conflict when one declares exclusive access to a resource the
\* other declares at all; the executor never runs such systems together.
Conflicts(a, b) ==
    \E x \in SystemParams(a), y \in SystemParams(b) :
        x.resource = y.resource /\ (x.mutable \/ y.mutable)

\* The executor starts a system whose declared access conflicts with no
\* system that is running.
Start(s) ==
    /\ ~panicked
    /\ s \notin running
    /\ \A r \in running : ~Conflicts(s, r)
    /\ running' = running \cup {s}
    /\ UNCHANGED <<webcam_frame, tracking_data, transform, panicked, tick,
                   after_abort, background_vars>>

\* A running system does its work and returns (or panics).
Finish(s, run) ==
    /\ ~panicked
    /\ s \in running
    /\ run
    /\ running' = running \ {s}

\* The frames and the detector and solver results of the schedule's runs.
SchedFrames == {EmptyMat, Image(<<1>>), Image(<<2, 7>>)}

SchedInputs ==
    {[fault |-> "cvt_color", res |-> NotSolved],
     [fault |-> "none", res |-> SolveResult("Ok_false", FALSE, Vec3ZERO, Vec3ZERO)],
     [fault |-> "none", res |-> SolveResult("Ok_true", TRUE, <<0, 0, 1>>, <<0, 2, 3>>)],
     [fault |-> "none", res |-> SolveResult("Ok_true", TRUE, <<2, 0, 0>>, <<1, 0, 0>>)]}

StartSystem == \E s \in Systems : Start(s)

FinishCapture == Finish("capture_background_image", CaptureRun(SchedFrames))

FinishTrack == Finish("track_aruco_targets", TrackRun(SchedInputs))

FinishDraw == Finish("handle_background_image", HandleRun)

NextSched == StartSystem \/ FinishCapture \/ FinishTrack \/ FinishDraw

SpecSched == Init /\ [][NextSched]_vars

(* ------------------------------- claims -------------------------------- *)

\* The last run of the system entered the given stage.
Entered(stage) == \E i \in 1..Len(tick.stages) : tick.stages[i] = stage

\* The last run of the system returned from a detector call that succeeded.
Detected == Entered("Detect") /\ tick.failed \notin {"cvt_color", "detect_markers"}

\* The determinant of a matrix given by its columns.
Mat3Determinant(m) ==
    LET c == Cross(m[2], m[3])
    IN  FAdd(FAdd(FMul(m[1][1], c[1]), FMul(m[1][2], c[2])), FMul(m[1][3], c[3]))

\* The matrix a 3x3 OpenCV Mat denotes, written in columns: OpenCV stores the
\* Mat row by row.
CvMatrix(s) ==
    << <<s[1], s[4], s[7]>>, <<s[2], s[5], s[8]>>, <<s[3], s[6], s[9]>> >>

\* The rotation matrix R the Rodrigues step produced in the last run.
SolverR == CvMatrix(Rodrigues(tick.solve.rvec))

\* C1: the camera transform is written at most once per tick, and only in a
\* tick whose frame was non-empty, that detected at least one marker, whose 2D
\* and 3D point sequences had equal length and whose solver returned true; in
\* every other tick the transform is what it was when the tick began.
C1_StickyLastGoodPose ==
    /\ tick.writes <= 1
    /\ tick.writes = 1 =>
          /\ ~tick.frame.empty
          /\ Len(tracking_data.ids) >= 1
          /\ Len(tick.flat_corners) = Len(tick.fiducial_corners)
          /\ tick.solve.ret = "Ok_true"
    /\ tick.writes = 0 => transform = tick.before

C1_Witness ==
    /\ tick.outcome = "Published"
    /\ tick.writes = 1
    /\ transform # tick.before

\* C2: when some detected identifier is not in the fiducial table, that
\* detection's 4 corners are in neither point sequence, the two sequences have
\* equal length, and the registered detections that remain reach the solver.
C2_UnregisteredDropped ==
    LET ids == tracking_data.ids
        Unregistered(i) == find(ids[i]) = 0
    IN  (Detected /\ \E i \in 1..Len(ids) : Unregistered(i)) =>
          /\ \A i \in 1..Len(ids) : Unregistered(i) =>
                \A c \in 1..4 : \A k \in 1..Len(tick.flat_corners) :
                    tick.flat_corners[k] # Point2f(i, c)
          /\ Len(tick.flat_corners) = Len(tick.fiducial_corners)
          /\ (\E i \in 1..Len(ids) : ~Unregistered(i)) => Entered("Solve")

\* C3: when the detector returns zero markers for a non-empty frame, the tick
\* ends as NoTargets: no correspondences are built, the solver is not invoked
\* and the camera transform is unchanged.
C3_NoTargets ==
    (Detected /\ ~tick.frame.empty /\ Len(tracking_data.ids) = 0) =>
        /\ tick.outcome = "NoTargets"
        /\ ~Entered("BuildCorrespondences")
        /\ ~Entered("Solve")
        /\ tick.solve = NotSolved
        /\ tick.writes = 0
        /\ transform = tick.before

C3_Witness ==
    /\ tick.outcome = "NoTargets"
    /\ ~tick.frame.empty
    /\ tracking_data.greyscale_image = tick.frame
    /\ transform # CameraStart

\* C4: when the number of 2D corners differs from the number of matched 3D
\* corners, the tick ends as CorrespondenceMismatch (not NoTargets): the solver
\* is not invoked, the camera transform is unchanged, nothing panics.
C4_CorrespondenceMismatch ==
    (Detected /\ Len(flat_corners(tracking_data.corners))
                    # Len(fiducial_corners(tracking_data.ids))) =>
        /\ tick.outcome = "CorrespondenceMismatch"
        /\ tick.outcome # "NoTargets"
        /\ ~Entered("Solve")
        /\ tick.solve = NotSolved
        /\ tick.writes = 0
        /\ transform = tick.before
        /\ tick.failed = "none"

C4_Witness ==
    /\ tick.outcome = "CorrespondenceMismatch"
    /\ Len(tick.flat_corners) = 8
    /\ Len(tick.fiducial_corners) = 4
    /\ transform # CameraStart

\* C5: when the solver runs and returns false, the tick is aborted and the
\* camera transform is unchanged, whatever the solver wrote to the buffers.
C5_SolveFalse ==
    tick.solve.ret = "Ok_false" =>
        /\ tick.outcome = "SolveFailed"
        /\ ~Entered("Convert")
        /\ ~Entered("Publish")
        /\ tick.writes = 0
        /\ transform = tick.before

C5_Witness ==
    /\ tick.solve.ret = "Ok_false"
    /\ tick.solve.wrote
    /\ tracking_data.latest_rotation = tick.solve.rvec
    /\ tracking_data.latest_translation = tick.solve.tvec
    /\ transform.translation # CoordinateFlip(
            InvertPose(ReadRotationMatrix(Rodrigues(tracking_data.latest_rotation)),
                       tracking_data.latest_translation).translation_inverse)

\* C6: a hard failure of a per-frame stage (cvt_color, detect_markers or the
\* solver returning Err) is recovered locally: the transform is retained and
\* the process keeps running.
C6_HardFailureRecovered ==
    tick.failed # "none" => (~panicked /\ transform = tick.before)

\* C7: if the Rodrigues matrix is not a rotation (determinant other than +1),
\* the pose is rejected as degenerate and the camera transform is unchanged.
C7_DegenerateRejected ==
    (tick.solve.ret = "Ok_true" /\ Mat3Determinant(SolverR) # 1) =>
        (tick.outcome = "DegeneratePose" /\ transform = tick.before)

\* C8: the position published on success is (x, -y, z) with
\* (x, y, z) = -R^T t, R the Rodrigues matrix and t the solver's translation.
C8_PublishedPosition ==
    tick.outcome = "Published" =>
        LET p == Mat3MulVec3(Mat3Neg(Mat3Transpose(SolverR)), tick.solve.tvec)
        IN  transform.translation = <<p[1], FNeg(p[2]), p[3]>>

\* C9: the orientation published on success is the rotation derived from the
\* solver output (the inverse rotation R^T, or the rotation the system
\* assigned from it), not replaced by any other orientation.
C9_PublishedOrientation ==
    tick.outcome = "Published" =>
        \/ transform.rotation = QuatFromMat3(Mat3Transpose(SolverR))
        \/ transform.rotation = tick.conv.rotation_inverse

\* C10: for a rotation matrix of determinant +1, inverting the pose the
\* converter has inverted gives back the original rotation matrix and the
\* original translation.
C10_InversionRoundTrip ==
    (tick.outcome = "Published" /\ Mat3Determinant(tick.conv.rotation_matrix) = 1) =>
        LET once  == InvertPose(tick.conv.rotation_matrix, tick.conv.translation)
            twice == InvertPose(once.rotation_matrix_inverse, once.translation_inverse)
        IN  /\ once.rotation_matrix_inverse = tick.conv.rotation_matrix_inverse
            /\ CoordinateFlip(once.translation_inverse) = tick.conv.translation_inverse
            /\ twice.rotation_matrix_inverse = tick.conv.rotation_matrix
            /\ twice.translation_inverse = tick.conv.translation

C10_Witness ==
    /\ tick.outcome = "Published"
    /\ Mat3Determinant(tick.conv.rotation_matrix) = 1
    /\ tick.conv.rotation_matrix_inverse # tick.conv.rotation_matrix
    /\ tick.conv.translation_inverse # tick.conv.translation
    /\ transform.translation = tick.conv.translation_inverse

\* The transform a tick publishes for the output vectors of the solver, from
\* the claims' side: position and look-at orientation, from nothing else.
PublishedFor(rvec, tvec) ==
    LET c == Convert(rvec, tvec)
    IN  [ translation |-> c.translation_inverse,
          rotation    |-> LookAt(c.translation_inverse, c.translation_residue,
                                 Vec3ZERO, Vec3Y) ]

\* The frame shows at least one marker and only markers of the table.
GoodFrame(frame) ==
    /\ ~frame.empty
    /\ Len(frame.markers) >= 1
    /\ \A i \in 1..Len(frame.markers) :
          \E j \in 1..Len(FIDUCIAL_POSITIONS) : FIDUCIAL_POSITIONS[j].id = frame.markers[i]

\* C11: the transform a tick leaves is a function of the tick's detection
\* batch, the solver's return value and output vectors and the transform
\* published before: two ticks given the same of these publish the same
\* transform, whatever the buffers held from earlier ticks.
C11_Determinism ==
    tick.outcome # "None" =>
        /\ tick.outcome = "Published" <=>
              (GoodFrame(tick.frame) /\ tick.solve.ret = "Ok_true")
        /\ transform =
              IF GoodFrame(tick.frame) /\ tick.solve.ret = "Ok_true"
              THEN PublishedFor(tick.solve.rvec, tick.solve.tvec)
              ELSE tick.before

C11_Witness ==
    /\ tick.outcome = "Published"
    /\ tick.before # CameraStart
    /\ tick.before # transform
    /\ transform = PublishedFor(tick.solve.rvec, tick.solve.tvec)

\* C12: for every marker of the table (ids 0..3) the corner lookup gives
\* exactly 4 pairwise distinct points in the plane y = 0, the corners of a
\* square of side FIDUCIAL_SIZE centred at (x_offset, 0, 0), at the same
\* offsets from the centre, index by index, for every marker.
C12_CornerOffsets ==
    LET h == FIDUCIAL_SIZE \div 2
    IN  << <<h, 0, h>>, <<0 - h, 0, h>>, <<0 - h, 0, 0 - h>>, <<h, 0, 0 - h>> >>

C12_SquareOf(f, cs) ==
    /\ Len(cs) = 4
    /\ \A i \in 1..4 : cs[i][2] = 0
    /\ \A i \in 1..4 : \A j \in 1..4 : i # j => cs[i] # cs[j]
    /\ \A i \in 1..4 : Vec3Sub(cs[i], <<f.x_offset, 0, 0>>) = C12_CornerOffsets[i]
    /\ cs[1][1] + cs[2][1] + cs[3][1] + cs[4][1] = 4 * f.x_offset
    /\ cs[1][3] + cs[2][3] + cs[3][3] + cs[4][3] = 0
    /\ \A i \in 1..4 :
          LET n == cs[(i % 4) + 1]
          IN  Abs(cs[i][1] - n[1]) + Abs(cs[i][3] - n[3]) = FIDUCIAL_SIZE
              /\ (cs[i][1] = n[1] \/ cs[i][3] = n[3])

C12_FiducialSquares ==
    /\ {FIDUCIAL_POSITIONS[j].id : j \in 1..Len(FIDUCIAL_POSITIONS)} = 0..3
    /\ \A j \in 1..Len(FIDUCIAL_POSITIONS) :
          C12_SquareOf(FIDUCIAL_POSITIONS[j], get_corners(FIDUCIAL_POSITIONS[j]))
    /\ Len(tick.fiducial_corners) % 4 = 0
    /\ \A d \in 1..(Len(tick.fiducial_corners) \div 4) :
          \E j \in 1..Len(FIDUCIAL_POSITIONS) :
              C12_SquareOf(FIDUCIAL_POSITIONS[j],
                           [c \in 1..4 |-> tick.fiducial_corners[4 * (d - 1) + c]])

C12_Witness ==
    /\ Entered("BuildCorrespondences")
    /\ tracking_data.ids = <<2, 1>>
    /\ Len(tick.fiducial_corners) = 8
    /\ tick.fiducial_corners[1] = <<585 + 165, 0, 165>>
    /\ tick.fiducial_corners[7] = <<0 - 585 - 165, 0, 0 - 165>>

\* C14: whenever the pose solver is invoked, the 3D and the 2D point sequences
\* have the same length, and that length is at least 4.
C14_SolverPrecondition ==
    Entered("Solve") =>
        /\ Len(tick.fiducial_corners) = Len(tick.flat_corners)
        /\ Len(tick.flat_corners) >= 4

C14_Witness ==
    /\ Entered("Solve")
    /\ tick.solve.ret = "Ok_true"
    /\ Len(tick.flat_corners) = 4
    /\ Len(tick.fiducial_corners) = 4

\* C15: whenever the pose solver is invoked, for every index k the 3D point
\* at k is corner (k mod 4) of the table entry whose id is the identifier of
\* detection (k div 4), and the 2D point at k is corner (k mod 4) of that
\* same detection.
C15_IndexAlignment ==
    Entered("Solve") =>
        \A k \in 1..Len(tick.flat_corners) :
            LET d == ((k - 1) \div 4) + 1
                c == ((k - 1) % 4) + 1
                j == find(tracking_data.ids[d])
            IN  /\ j # 0
                /\ FIDUCIAL_POSITIONS[j].id = tracking_data.ids[d]
                /\ tick.fiducial_corners[k] = get_corners(FIDUCIAL_POSITIONS[j])[c]
                /\ tick.flat_corners[k] = tracking_data.corners[d][c]
                /\ tick.flat_corners[k] = Point2f(d, c)

C15_Witness ==
    /\ Entered("Solve")
    /\ tracking_data.ids = <<2, 1>>
    /\ Len(tick.flat_corners) = 8
    /\ tick.fiducial_corners[5] = get_corners(FIDUCIAL_POSITIONS[2])[1]
    /\ tick.flat_corners[5] = Point2f(2, 1)

\* C13: when the frame is empty, the tick stops at acquisition: the detector
\* and the solver are not invoked, the detection buffers and the rotation and
\* translation buffers keep their contents, the transform is unchanged, and
\* nothing fails.
C13_EmptyFrameStep ==
    webcam_frame.empty =>
        /\ tracking_data' = tracking_data
        /\ transform' = transform
        /\ (tick' # tick \/ after_abort' # after_abort) =>
              /\ tick'.frame = webcam_frame
              /\ tick'.outcome = "AcquisitionEmpty"
              /\ tick'.stages = <<"AcquireFrame">>
              /\ tick'.solve = NotSolved
              /\ tick'.writes = 0
              /\ tick'.before = transform
              /\ ~panicked'

C13_EmptyFrame == [][C13_EmptyFrameStep]_vars

C13_Witness ==
    /\ tick.outcome = "AcquisitionEmpty"
    /\ tick.frame.empty
    /\ ~after_abort
    /\ tracking_data.ids # <<>>
    /\ tracking_data.latest_rotation # Vec3ZERO
    /\ transform # CameraStart
    /\ transform = tick.before

\* The stages of a tick, in the order of the code.
StageOrder ==
    <<"AcquireFrame", "Detect", "BuildCorrespondences", "Solve", "Convert", "Publish">>

\* C16: the stages of a tick run in the order AcquireFrame, Detect,
\* BuildCorrespondences, Solve, Convert, Publish, each at most once; a stage
\* runs only if every earlier stage of the tick succeeded, nothing runs after
\* a stage that did not, and every tick, whatever the tick before it did,
\* begins at AcquireFrame.
C16_StageOrder ==
    tick.outcome # "None" =>
        LET n == Len(tick.stages)
        IN  /\ n \in 1..Len(StageOrder)
            /\ \A i \in 1..n : tick.stages[i] = StageOrder[i]
            /\ n >= 2 => ~tick.frame.empty
            /\ n >= 3 => (tick.failed \notin {"cvt_color", "detect_markers"}
                          /\ Len(tick.frame.markers) >= 1)
            /\ n >= 4 => Len(tick.fiducial_corners) = Len(tick.flat_corners)
            /\ n >= 5 => (tick.solve.ret = "Ok_true" /\ tick.failed = "none")
            /\ n >= 6 => tick.conv = Convert(tick.solve.rvec, tick.solve.tvec)
            /\ (n < Len(StageOrder)) = (tick.outcome # "Published")
            /\ (tick.outcome = "AcquisitionEmpty") = (n = 1)
            /\ tick.outcome \in {"NoTargets"} => n = 2
            /\ tick.outcome = "CorrespondenceMismatch" => n = 3
            /\ tick.outcome = "SolveFailed" => n = 4
            /\ tick.outcome = "HardFailure" => n \in {2, 4}

C16_Witness ==
    /\ after_abort
    /\ tick.outcome = "SolveFailed"
    /\ tick.stages = <<"AcquireFrame", "Detect", "BuildCorrespondences", "Solve">>
    /\ tracking_data.latest_rotation # Vec3ZERO

\* C18: an early return (empty frame, no detections, length mismatch, solver
\* returning false) never stops the controller; the first tick after early
\* returns that has a non-empty frame with only markers of the table and a
\* solver returning true publishes the transform computed from that tick's
\* solver output alone.
C18_RecoveryStep ==
    ~(UNCHANGED <<tracking_data, transform, tick, after_abort>>) =>
        /\ tick'.outcome \in EarlyReturns => ~panicked'
        /\ (tick.outcome \in EarlyReturns /\ GoodFrame(webcam_frame)
              /\ tick'.solve.ret = "Ok_true") =>
              /\ after_abort'
              /\ tick'.outcome = "Published"
              /\ transform' = PublishedFor(tick'.solve.rvec, tick'.solve.tvec)

C18_Recovery == [][C18_RecoveryStep]_vars

C18_Witness ==
    /\ after_abort
    /\ tick.outcome = "Published"
    /\ GoodFrame(tick.frame)
    /\ tick.before # transform
    /\ tick.before # CameraStart
    /\ transform = PublishedFor(tick.solve.rvec, tick.solve.tvec)

\* C17: while the tracking system processes a frame no other system reads or
\* writes the frame, the detection buffers or the rotation and translation
\* buffers; the capture, tracking and drawing systems each hold the frame
\* exclusively, so no two of them run at the same time and the frame a system
\* started on is the frame it finishes on; the detector is only used through
\* its lock.
C17_ExclusiveStep ==
    /\ Cardinality(running') <= 1
    /\ \A s \in Systems :
          (s \in running /\ s \in running') =>
              UNCHANGED <<webcam_frame, tracking_data, transform, tick>>
    /\ webcam_frame' # webcam_frame =>
          (running = {"capture_background_image"} /\ running' = {})
    /\ (tracking_data' # tracking_data \/ tick' # tick \/ transform' # transform) =>
          /\ running = {"track_aruco_targets"}
          /\ running' = {}
          /\ tick'.frame = webcam_frame
          /\ UNCHANGED webcam_frame
    /\ (converted_webcam_frame' # converted_webcam_frame
          \/ background_image' # background_image) =>
          /\ running = {"handle_background_image"}
          /\ converted_webcam_frame' = webcam_frame
          /\ UNCHANGED webcam_frame
    /\ tick'.detector \in {"unused", "locked"}
    /\ (Len(tick'.stages) >= 2 /\ tick'.failed # "cvt_color") = (tick'.detector = "locked")

C17_ExclusiveAccess == [][C17_ExclusiveStep]_vars

C17_Witness ==
    /\ running = {"track_aruco_targets"}
    /\ ~webcam_frame.empty
    /\ tick.outcome = "Published"
    /\ tick.detector = "locked"
    /\ tick.frame # webcam_frame
    /\ background_image = ImageNew(tick.frame)

====
